---- MODULE Spec2Model ----
(***************************************************************************)
(* AutoModemAdmin: the device layer of src/automodemadmin/modems.py (the   *)
(* factory, AuthModem, ModemTG1682G and the two decorators) and the        *)
(* NoNonesDefaultDict of src/automodemadmin/nononesdefaultdict.py.         *)
(*                                                                         *)
(* One action per public operation; a call is atomic (the program is       *)
(* single-threaded and synchronous).  What the HTTP peer answers is the    *)
(* environment's choice: a transport error, or a response with a status    *)
(* and possibly Set-Cookie headers.  The session talks to one host and     *)
(* path, so its cookie jar holds at most one cookie per name.              *)
(***************************************************************************)
EXTENDS Integers, Sequences, FiniteSets, TLC

VARIABLES modem, ip_address, ignore_cert, session, live, jar, credentials,
          now, last, ndd, nddLast

vars == <<modem, ip_address, ignore_cert, session, live, jar, credentials,
          now, last, ndd, nddLast>>

devVars == <<modem, ip_address, ignore_cert, session, live, jar, credentials,
             now, last>>

dictVars == <<ndd, nddLast>>

----------------------------------------------------------------------------
(* Bounds of the model *)

MaxTime == 601
MaxSessions == 3
CookieTTL == 300

TickSteps == {400, 601}

----------------------------------------------------------------------------
(* Values *)

None == "None"
Absent == "<absent>"

Usernames == {"", "admin"}
Passwords == {"", "pw"}
Models == {"TG1682G", "TG1682"}
\* strings the code joins character by character are sequences of characters
IpAddresses == {<<"1", ".", "2">>}
Pages == {<<"a", "b">>}
CredKeys == {"username", "password"}

\* Modem.TIMEOUT_LIMIT, in seconds
TIMEOUT_LIMIT == 10
INTERNAL_COOKIE_EXPIRY == 10 * 60
AUTHCOOKIE_NAME == "PHPSESSID"
OtherCookie == "lang"
CookieNames == {AUTHCOOKIE_NAME, OtherCookie}

----------------------------------------------------------------------------
(* NoNonesDefaultDict(lambda: ''), a dict as a function from its possible  *)
(* keys to a value or Absent.                                              *)

EmptyDict(keys) == [k \in keys |-> Absent]

\* default_factory of the credentials mapping: lambda: ''
DefaultFactory == ""

\* dict.pop(key) with no default: KeyError when the key is missing
DictPop(d, k) ==
    IF d[k] = Absent
    THEN [d |-> d, result |-> "KeyError"]
    ELSE [d |-> [d EXCEPT ![k] = Absent], result |-> "ok"]

\* NoNonesDefaultDict.__setitem__
NddSetItem(d, k, v) ==
    IF v = None
    THEN DictPop(d, k)
    ELSE [d |-> [d EXCEPT ![k] = v], result |-> "ok"]

\* defaultdict.__getitem__: a missing key is filled with default_factory()
NddGetItem(d, k) ==
    IF d[k] = Absent
    THEN [d |-> [d EXCEPT ![k] = DefaultFactory], value |-> DefaultFactory]
    ELSE [d |-> d, value |-> d[k]]

----------------------------------------------------------------------------
(* Cookies.  A cookie is its expires attribute (None as the server of a    *)
(* session cookie leaves it, a number of seconds, or the ISO-format string *)
(* refresh_cookie writes) and the login data it was obtained under.        *)

NoCookie == [kind |-> "absent", t |-> 0, creds |-> EmptyDict(CredKeys)]
EmptyJar == [n \in CookieNames |-> NoCookie]

CookiesIn(j) == {n \in CookieNames : j[n].kind # "absent"}

\* http.cookiejar.Cookie.is_expired(): expires is not None and expires <= now;
\* a str compared with the float clock raises TypeError
is_expired(c, t) ==
    CASE c.kind = "none" -> "false"
      [] c.kind = "num"  -> IF c.t <= t THEN "true" ELSE "false"
      [] c.kind = "iso"  -> "TypeError"

\* ModemTG1682G.is_authenticated over a cookie jar at clock t:
\* "true", "false", or "TypeError" when is_expired raises
is_authenticated(j, t) ==
    IF j[AUTHCOOKIE_NAME].kind = "absent" THEN "false"
    ELSE CASE is_expired(j[AUTHCOOKIE_NAME], t) = "TypeError" -> "TypeError"
           [] is_expired(j[AUTHCOOKIE_NAME], t) = "false" -> "true"
           [] is_expired(j[AUTHCOOKIE_NAME], t) = "true" -> "false"

----------------------------------------------------------------------------
(* URLs.  A string is the sequence of its characters.                      *)

\* str.join: the items of s (here the characters of a string) with sep
\* between each two of them
RECURSIVE Join(_, _)
Join(sep, s) ==
    IF s = <<>> THEN <<>>
    ELSE IF Len(s) = 1 THEN <<s[1]>>
    ELSE <<s[1]>> \o sep \o Join(sep, Tail(s))

Https == <<"h", "t", "t", "p", "s", ":", "/", "/">>
CheckPath ==
    <<"/", "c", "h", "e", "c", "k", ".", "p", "h", "p">>
RebootPath ==
    <<"/", "a", "c", "t", "i", "o", "n", "H", "a", "n", "d", "l", "e", "r",
      "/", "a", "j", "a", "x", "S", "e", "t", "_", "m", "t", "a", "_", "L",
      "i", "n", "e", "_", "D", "i", "a", "g", "n", "o", "s", "t", "i", "c",
      "s", ".", "p", "h", "p">>
Slash == <<"/">>

\* ModemTG1682G.authenticate, line 162
authenticate_url(ip) == Join(Join(Https, ip), CheckPath)

\* ModemTG1682G.reboot, line 178
reboot_url(ip) == Join(Join(Https, ip), RebootPath)

\* ModemTG1682G.get_page, line 192
get_page_url(ip, page) == Join(Join(Join(Https, ip), Slash), page)

----------------------------------------------------------------------------
(* The HTTP peer *)

TransportError == [error |-> TRUE, ok |-> FALSE, setAuth |-> "no", setOther |-> FALSE]

\* answers to the login POST: a status below 400 or not, and the session
\* cookie set or not, as a session cookie or with an expiry date
LoginResponses == [error : {FALSE}, ok : BOOLEAN, setAuth : {"no", "session", "timed"},
                   setOther : {FALSE}]

\* answers to a page GET: the page, with or without another cookie
PageResponses == [error : {FALSE}, ok : {TRUE}, setAuth : {"no"}, setOther : BOOLEAN]

LoginOutcomes == {TransportError} \cup LoginResponses
PageOutcomes == {TransportError} \cup PageResponses

\* requests stores the response's Set-Cookie headers in the session's jar
Receive(j, out, creds, t) ==
    [n \in CookieNames |->
        IF n = AUTHCOOKIE_NAME /\ out.setAuth = "session"
        THEN [kind |-> "none", t |-> 0, creds |-> creds]
        ELSE IF n = AUTHCOOKIE_NAME /\ out.setAuth = "timed"
        THEN [kind |-> "num", t |-> t + CookieTTL, creds |-> creds]
        ELSE IF n = OtherCookie /\ out.setOther
        THEN [NoCookie EXCEPT !.kind = "none"]
        ELSE j[n]]

Request(kind, method, url, sid, data, timeout, verify, j) ==
    [kind |-> kind, method |-> method, url |-> url, sid |-> sid, data |-> data,
     timeout |-> timeout, verify |-> verify, cookies |-> CookiesIn(j)]

----------------------------------------------------------------------------
(* AuthModem *)

\* AuthModem.credentials setter: a new NoNonesDefaultDict, then one
\* __setitem__ per item of c, in the order of the dict literal (username,
\* password).  The new mapping is in place before the items are copied, so
\* it stays when an item raises.
CredentialsSetter(c) ==
    LET s1 == NddSetItem(EmptyDict(CredKeys), "username", c["username"])
        s2 == NddSetItem(s1.d, "password", c["password"])
    IN  IF s1.result # "ok" THEN s1 ELSE s2

\* requests.Session(): an object distinct from every session still open
HasNewSession == \E i \in 1..MaxSessions : i \notin live \cup {session}
NewSession == CHOOSE i \in 1..MaxSessions : i \notin live \cup {session}

\* the keyword arguments requests.Session.request() accepts (post and get
\* pass their **kwargs on to it)
RequestKwargs == {"params", "data", "headers", "cookies", "files", "auth", "timeout",
                  "allow_redirects", "proxies", "hooks", "stream", "verify", "cert",
                  "json"}

\* ModemTG1682G.authenticate, line 165: which way the login response goes
LoginVerdict(ok, auth) ==
    IF ~ok THEN "ok"
    ELSE CASE auth = "TypeError" -> "TypeError"
           [] auth = "false" -> "InvalidCredentialsError"
           [] auth = "true" -> "ok"

\* an authenticate that sends the login POST again after a transport error
authenticateRetry(creds, sid, j, out) ==
    LET req == Request("login", "POST", authenticate_url(ip_address), sid, creds, <<TIMEOUT_LIMIT>>, ~ignore_cert, j)
        j1 == Receive(j, out, creds, now)
    IN  IF out.error
        THEN [jar |-> j, result |-> "RequestException", reqs |-> <<req, req>>,
              after |-> "-"]
        ELSE [jar |-> j1, reqs |-> <<req>>,
              result |-> LoginVerdict(out.ok, is_authenticated(j1, now)),
              after |-> is_authenticated(j1, now)]

\* ModemTG1682G.authenticate with the credentials creds on the session sid
\* whose jar is j, the peer answering out
authenticate(creds, sid, j, out) ==
    LET req == Request("login", "POST", authenticate_url(ip_address), sid, creds, <<TIMEOUT_LIMIT>>, ~ignore_cert, j)
        j1 == Receive(j, out, creds, now)
    IN  IF out.error
        THEN [jar |-> j, result |-> "RequestException", reqs |-> <<req>>,
              after |-> "-"]
        ELSE [jar |-> j1, reqs |-> <<req>>,
              result |-> LoginVerdict(out.ok, is_authenticated(j1, now)),
              after |-> is_authenticated(j1, now)]

\* the keyword arguments of reboot's session.post call (url and data are
\* positional)
RebootKwargs == {"header", "verify"}

\* ModemTG1682G.reboot, the undecorated method
reboot_body(j, out) ==
    LET req == Request("reboot", "POST", reboot_url(ip_address), session,
                           [get_statusx |-> "false", restore_reboot |-> "true"], <<>>,
                       ~ignore_cert, j)
    IN  IF ~(RebootKwargs \subseteq RequestKwargs)
        THEN [jar |-> j, result |-> "TypeError", reqs |-> <<>>]
        ELSE IF out.error
        THEN [jar |-> j, result |-> "RequestException", reqs |-> <<req>>]
        ELSE [jar |-> Receive(j, out, credentials, now), result |-> "ok",
              reqs |-> <<req>>]

\* ModemTG1682G.get_page, the undecorated method
get_page_body(page, j, out) ==
    LET req == Request("page", "GET", get_page_url(ip_address, page), session, <<>>, <<>>,
                       ~ignore_cert, j)
    IN  IF out.error
        THEN [jar |-> j, result |-> "RequestException", reqs |-> <<req>>]
        ELSE [jar |-> Receive(j, out, credentials, now), result |-> "ok",
              reqs |-> <<req>>]

\* reset_wifi and migrate_channel: pass
pass_body(j) == [jar |-> j, result |-> "ok", reqs |-> <<>>]

Wrapped == {"reboot", "get_page", "reset_wifi", "migrate_channel"}

Body(op, page, j, out) ==
    CASE op = "reboot" -> reboot_body(j, out)
      [] op = "get_page" -> get_page_body(page, j, out)
      [] op \in {"reset_wifi", "migrate_channel"} -> pass_body(j)

\* a wrapper that authenticates before every call
NeedsAuthenticateAlways(pre) == TRUE

\* requires_authentication, line 120: whether the wrapper calls authenticate
NeedsAuthenticate(pre) == pre = "false"

\* a refresh that stamps every cookie, whatever its name
refreshAll(j, cookiename, expires_in_x) ==
    [n \in CookieNames |->
        IF j[n].kind # "absent"
        THEN [j[n] EXCEPT !.kind = "iso", !.t = now + expires_in_x]
        ELSE j[n]]

\* refresh_cookie, lines 138-140: every cookie named cookiename gets the
\* ISO-format string of now + expires_in_x as its expires
refresh(j, cookiename, expires_in_x) ==
    [n \in CookieNames |->
        IF n = cookiename /\ j[n].kind # "absent"
        THEN [j[n] EXCEPT !.kind = "iso", !.t = now + expires_in_x]
        ELSE j[n]]

\* what one call left behind, for the properties to read
NoCall ==
    [op |-> "-", arg |-> <<>>, result |-> "-", authPre |-> "-", authCalls |-> 0,
     authReturned |-> FALSE, authAfter |-> "-", bodyReached |-> FALSE,
     bodyAuth |-> "-", reqs |-> <<>>, refreshed |-> FALSE,
     sessionBefore |-> 0, credsBefore |-> EmptyDict(CredKeys),
     jarBefore |-> EmptyJar, jarBody |-> EmptyJar]

\* a method decorated @refresh_cookie(AUTHCOOKIE_NAME, INTERNAL_COOKIE_EXPIRY)
\* @requires_authentication, called with the peer answering authOut to the
\* login (when there is one) and bodyOut to the method's own request
decorated(op, page, authOut, bodyOut) ==
    LET pre == is_authenticated(jar, now)
        base == [NoCall EXCEPT !.op = op, !.authPre = pre, !.sessionBefore = session,
                               !.jarBefore = jar]
        a == authenticate(credentials, session, jar, authOut)
        ja == IF NeedsAuthenticate(pre) THEN a.jar ELSE jar
        b == Body(op, page, ja, bodyOut)
        viaAuth == [base EXCEPT !.authCalls = 1, !.reqs = a.reqs,
                                !.authReturned = (a.result = "ok"),
                                !.authAfter = a.after]
        entered == IF NeedsAuthenticate(pre) THEN viaAuth ELSE base
    IN  IF pre = "TypeError"
        THEN [jar |-> jar, call |-> [base EXCEPT !.result = "TypeError"]]
        ELSE IF NeedsAuthenticate(pre) /\ a.result # "ok"
        THEN [jar |-> a.jar, call |-> [viaAuth EXCEPT !.result = a.result]]
        ELSE IF b.result # "ok"
        THEN [jar |-> b.jar,
              call |-> [entered EXCEPT !.result = b.result, !.bodyReached = TRUE,
                                       !.bodyAuth = is_authenticated(ja, now),
                                       !.reqs = entered.reqs \o b.reqs,
                                       !.jarBody = b.jar]]
        ELSE [jar |-> refresh(b.jar, AUTHCOOKIE_NAME, INTERNAL_COOKIE_EXPIRY),
              call |-> [entered EXCEPT !.result = "ok", !.bodyReached = TRUE,
                                       !.bodyAuth = is_authenticated(ja, now),
                                       !.reqs = entered.reqs \o b.reqs,
                                       !.jarBody = b.jar, !.refreshed = TRUE]]

----------------------------------------------------------------------------
(* The factory and the constructor *)

\* no call is in progress: the caller has taken the last call's result
Idle == last.op = "-"

\* modems.get: the class the model string selects
get(model) ==
    IF model = "TG1682G" THEN "ModemTG1682G" ELSE "UnknownModemModelError"

\* a flag that is on unless the configuration turns it off
OrTrue(x) == x # "False"

\* configurations.get('ignore_cert') or False
OrFalse(x) == x = "True"

Configurations ==
    [ip_address : IpAddresses, username : Usernames \cup {None},
     password : Passwords \cup {None}, ignore_cert : {"True", "False", None}]

Init ==
    /\ modem = "none"
    /\ ip_address = <<>>
    /\ ignore_cert = FALSE
    /\ session = 0
    /\ live = {}
    /\ jar = EmptyJar
    /\ credentials = EmptyDict(CredKeys)
    /\ now = 0
    /\ last = NoCall
    /\ ndd = EmptyDict(CredKeys)
    /\ nddLast = [op |-> "-", key |-> "-", value |-> "-", result |-> "-", before |-> "-"]

\* modems.get(model, configurations), with AuthModem.__init__ when the model
\* is known.  A constructor that raises leaves no device: its session is
\* closed by __del__ when the half-built object is collected.
Get(model, cfg) ==
    /\ Idle
    /\ modem = "none"
    /\ UNCHANGED <<now, dictVars>>
    /\ LET c == CredentialsSetter([username |-> cfg.username, password |-> cfg.password])
           call == [NoCall EXCEPT !.op = "get", !.arg = <<model, cfg>>]
       IN  IF get(model) = "UnknownModemModelError"
           THEN /\ last' = [call EXCEPT !.result = "UnknownModemModelError"]
                /\ UNCHANGED <<modem, ip_address, ignore_cert, session, live, jar,
                               credentials>>
           ELSE IF c.result # "ok"
           THEN /\ last' = [call EXCEPT !.result = c.result]
                /\ UNCHANGED <<modem, ip_address, ignore_cert, session, live, jar,
                               credentials>>
           ELSE /\ modem' = get(model)
                /\ ip_address' = cfg.ip_address
                /\ ignore_cert' = OrFalse(cfg.ignore_cert)
                /\ session' = NewSession
                /\ live' = live \cup {NewSession}
                /\ jar' = EmptyJar
                /\ credentials' = c.d
                /\ last' = [call EXCEPT !.result = "ok"]

----------------------------------------------------------------------------
(* The device's operations *)

\* AuthModem.login, line 75: the stored pair differs from the arguments.
\* Reading a missing key of the mapping stores the default under it; the
\* password is read only when the usernames are equal.
LoginReads(u) ==
    LET g == NddGetItem(credentials, "username")
    IN  IF g.value # u THEN g.d ELSE NddGetItem(g.d, "password").d

\* a login that replaces the session every time
LoginChangesAlways(u, p) == TRUE

\* a login that looks at the username alone
LoginChangesUsernameOnly(u, p) == NddGetItem(credentials, "username").value # u

LoginChanges(u, p) ==
    \/ NddGetItem(credentials, "username").value # u
    \/ NddGetItem(credentials, "password").value # p

\* AuthModem.login(username, password)
Login(u, p, out) ==
    /\ Idle
    /\ modem # "none"
    /\ LoginChanges(u, p) => HasNewSession
    /\ UNCHANGED <<modem, ip_address, ignore_cert, now, dictVars>>
    /\ LET changed == LoginChanges(u, p)
           c == CredentialsSetter([username |-> u, password |-> p])
           sid == IF changed THEN NewSession ELSE session
           j0 == IF changed THEN EmptyJar ELSE jar
           creds == IF changed THEN c.d ELSE LoginReads(u)
           a == authenticate(creds, sid, j0, out)
           call == [NoCall EXCEPT !.op = "login", !.arg = <<u, p>>,
                                  !.authPre = is_authenticated(jar, now),
                                  !.sessionBefore = session,
                                  !.credsBefore = credentials, !.jarBefore = jar]
       IN  /\ session' = sid
           /\ live' = IF changed THEN (live \ {session}) \cup {sid} ELSE live
           /\ credentials' = creds
           /\ IF changed /\ c.result # "ok"
              THEN /\ jar' = j0
                   /\ last' = [call EXCEPT !.result = c.result]
              ELSE /\ jar' = a.jar
                   /\ last' = [call EXCEPT !.result = a.result, !.authCalls = 1,
                                           !.authReturned = (a.result = "ok"),
                                           !.authAfter = a.after, !.reqs = a.reqs]

\* ModemTG1682G.authenticate(), called directly
Authenticate(out) ==
    /\ Idle
    /\ modem # "none"
    /\ UNCHANGED <<modem, ip_address, ignore_cert, session, live, credentials, now,
                   dictVars>>
    /\ LET a == authenticate(credentials, session, jar, out)
       IN  /\ jar' = a.jar
           /\ last' = [NoCall EXCEPT !.op = "authenticate", !.result = a.result,
                                     !.authPre = is_authenticated(jar, now),
                                     !.authCalls = 1,
                                     !.authReturned = (a.result = "ok"),
                                     !.authAfter = a.after, !.reqs = a.reqs,
                                     !.sessionBefore = session]

Call(op, page, authOut, bodyOut) ==
    /\ Idle
    /\ modem # "none"
    /\ UNCHANGED <<modem, ip_address, ignore_cert, session, live, credentials, now,
                   dictVars>>
    /\ jar' = decorated(op, page, authOut, bodyOut).jar
    /\ last' = [decorated(op, page, authOut, bodyOut).call EXCEPT !.arg = page]

GetPage(page, authOut, bodyOut) == Call("get_page", page, authOut, bodyOut)

\* the bodies of reboot, reset_wifi and migrate_channel get no answer
Reboot(authOut) == Call("reboot", <<>>, authOut, TransportError)

ResetWifi(authOut) == Call("reset_wifi", <<>>, authOut, TransportError)

MigrateChannel(authOut) == Call("migrate_channel", <<>>, authOut, TransportError)

\* modem.credentials = c
CredentialsAssign(c) ==
    /\ Idle
    /\ modem # "none"
    /\ UNCHANGED <<modem, ip_address, ignore_cert, session, live, jar, now, dictVars>>
    /\ credentials' = CredentialsSetter(c).d
    /\ last' = [NoCall EXCEPT !.op = "credentials", !.arg = c,
                              !.result = CredentialsSetter(c).result,
                              !.authPre = is_authenticated(jar, now),
                              !.sessionBefore = session,
                              !.credsBefore = credentials]

\* modem.session = requests.Session()
SessionAssign ==
    /\ Idle
    /\ modem # "none"
    /\ Cardinality(live \cup {session}) + 1 < MaxSessions
    /\ UNCHANGED <<modem, ip_address, ignore_cert, credentials, now, dictVars>>
    /\ session' = NewSession
    /\ live' = live \cup {NewSession}
    /\ jar' = EmptyJar
    /\ last' = [NoCall EXCEPT !.op = "session", !.sessionBefore = session,
                              !.authPre = is_authenticated(jar, now)]

\* the clock moves between calls
Tick(d) ==
    /\ Idle
    /\ now + d <= MaxTime
    /\ now' = now + d
    /\ UNCHANGED <<modem, ip_address, ignore_cert, session, live, jar, credentials,
                   last, dictVars>>

\* the call returns (or raises) to its caller
Return ==
    /\ ~Idle
    /\ last' = NoCall
    /\ UNCHANGED <<modem, ip_address, ignore_cert, session, live, jar, credentials,
                   now, dictVars>>

\* the dicts a caller assigns to modem.credentials
CredentialDicts == [username : Usernames, password : Passwords]

Next ==
    \/ \E m \in Models, cfg \in Configurations : Get(m, cfg)
    \/ \E u \in Usernames, p \in Passwords, out \in LoginOutcomes : Login(u, p, out)
    \/ \E out \in LoginOutcomes : Authenticate(out)
    \/ \E authOut \in LoginOutcomes : Reboot(authOut)
    \/ \E page \in Pages, authOut \in LoginOutcomes, bodyOut \in PageOutcomes :
          GetPage(page, authOut, bodyOut)
    \/ \E authOut \in LoginOutcomes : ResetWifi(authOut)
    \/ \E authOut \in LoginOutcomes : MigrateChannel(authOut)
    \/ \E c \in CredentialDicts : CredentialsAssign(c)
    \/ SessionAssign
    \/ \E d \in TickSteps : Tick(d)
    \/ Return

Spec == Init /\ [][Next]_vars

----------------------------------------------------------------------------
(* A NoNonesDefaultDict(lambda: '') on its own: item assignments and       *)
(* lookups in any order.                                                   *)

DictValues == {"", "admin", "pw"}

\* d[k] = v
DictSetItem(k, v) ==
    /\ ndd' = NddSetItem(ndd, k, v).d
    /\ nddLast' = [op |-> "set", key |-> k, value |-> v,
                   result |-> NddSetItem(ndd, k, v).result, before |-> ndd[k]]
    /\ UNCHANGED devVars

\* d[k]
DictGetItem(k) ==
    /\ ndd' = NddGetItem(ndd, k).d
    /\ nddLast' = [op |-> "get", key |-> k, value |-> NddGetItem(ndd, k).value,
                   result |-> "ok", before |-> ndd[k]]
    /\ UNCHANGED devVars

DictNext ==
    \/ \E k \in CredKeys, v \in DictValues \cup {None} : DictSetItem(k, v)
    \/ \E k \in CredKeys : DictGetItem(k)

DictSpec == Init /\ [][DictNext]_vars

----------------------------------------------------------------------------
(* Properties *)

\* the login POSTs among the requests of the last call
LoginPosts == {i \in DOMAIN last.reqs : last.reqs[i].kind = "login"}

\* the requests of the last call that are not login POSTs
ActionRequests == {i \in DOMAIN last.reqs : last.reqs[i].kind # "login"}

C2_BodyOnlyWhenAuthenticated ==
    last.bodyReached => last.bodyAuth = "true"

\* C3: authenticate() returns normally only if is_authenticated() is true
\* on return; a login POST answered without a valid PHPSESSID cookie raises
\* InvalidCredentialsError.
C3_AuthenticateReturnsOnlyAuthenticated ==
    last.authReturned => last.authAfter = "true"

\* C4: in every state of a constructed device is_authenticated() returns a
\* boolean and does not raise, also after a refresh_cookie-wrapped action
\* has stamped the cookie's expiry.
C4_IsAuthenticatedReturnsBoolean ==
    modem # "none" => is_authenticated(jar, now) \in {"true", "false"}

\* C5: login on an authenticated device with a username or password that
\* differs from the stored pair closes the prior session, installs a fresh
\* session with none of the prior cookies, stores the new pair, and makes
\* its authenticate() call on the fresh session with the new pair.
C5_LoginChangeReplacesSession ==
    ( /\ last.op = "login"
      /\ last.authPre = "true"
      /\ \/ last.credsBefore["username"] # last.arg[1]
         \/ last.credsBefore["password"] # last.arg[2] )
    => /\ session # last.sessionBefore
       /\ last.sessionBefore \notin live
       /\ session \in live
       /\ credentials = [username |-> last.arg[1], password |-> last.arg[2]]
       /\ last.authCalls = 1
       /\ Len(last.reqs) = 1
       /\ last.reqs[1].kind = "login"
       /\ last.reqs[1].sid = session
       /\ last.reqs[1].cookies = {}
       /\ last.reqs[1].data = [username |-> last.arg[1], password |-> last.arg[2]]

\* C5 witness: an authenticated device was logged in with another password
\* and the login POST was answered
C5_Witness ==
    /\ last.op = "login"
    /\ last.authPre = "true"
    /\ last.credsBefore["username"] = last.arg[1]
    /\ last.credsBefore["password"] # last.arg[2]
    /\ last.result = "ok"
    /\ session # last.sessionBefore

\* C6: the session never holds a cookie obtained under a credential pair
\* other than the current one.
C6_CookiesUnderCurrentCredentials ==
    (modem # "none" /\ jar[AUTHCOOKIE_NAME].kind # "absent")
    => jar[AUTHCOOKIE_NAME].creds = credentials

\* C7: every assignment to a NoNonesDefaultDict(lambda: '') completes
\* without raising, None included, and a lookup of a key that is unset or
\* was last set to None returns ''.
C7_AssignmentNeverRaises ==
    /\ nddLast.op = "set" => nddLast.result = "ok"
    /\ (nddLast.op = "get" /\ nddLast.before = Absent) => nddLast.value = ""

\* C8: constructing the device from configurations without a username or
\* without a password succeeds, and the missing credential reads as ''.
C8_MissingCredentialsDefaultToEmpty ==
    ( /\ last.op = "get"
      /\ get(last.arg[1]) = "ModemTG1682G"
      /\ last.arg[2].username = None \/ last.arg[2].password = None )
    => /\ last.result = "ok"
       /\ modem = "ModemTG1682G"
       /\ last.arg[2].username = None =>
             NddGetItem(credentials, "username").value = ""
       /\ last.arg[2].password = None =>
             NddGetItem(credentials, "password").value = ""

\* C9: get(model, configurations) returns a ModemTG1682G built from the
\* configurations when model is "TG1682G", and raises
\* UnknownModemModelError, constructing nothing, for any other model.
C9_FactoryByModel ==
    last.op = "get" =>
        IF last.arg[1] = "TG1682G"
        THEN /\ last.result = "ok"
             /\ modem = "ModemTG1682G"
             /\ ip_address = last.arg[2].ip_address
        ELSE /\ last.result = "UnknownModemModelError"
             /\ modem = "none"
             /\ live = {}

\* C10: reboot() on a device that is authenticated, or becomes so through
\* the wrapper's login, sends exactly one POST with restore_reboot=true
\* through the current session and returns normally.
C10_RebootPostsOnce ==
    ( /\ last.op = "reboot"
      /\ \/ last.authPre = "true"
         \/ last.authPre = "false" /\ last.authReturned /\ last.authAfter = "true" )
    => /\ last.result = "ok"
       /\ Cardinality(ActionRequests) = 1
       /\ \A i \in ActionRequests :
             /\ last.reqs[i].method = "POST"
             /\ last.reqs[i].kind = "reboot"
             /\ last.reqs[i].data.restore_reboot = "true"
             /\ last.reqs[i].sid = session

\* C11: at most one session created for or assigned to the device is
\* unclosed, and it is the device's current session.
C11_AtMostOneLiveSession ==
    live \subseteq {session}

\* the PHPSESSID cookie the session held when the last call began
StampBefore == last.jarBefore[AUTHCOOKIE_NAME]

\* C12: after a wrapped action completed at time t (and stamped the cookie
\* with t + INTERNAL_COOKIE_EXPIRY), a wrapped action called later than the
\* stamp finds the device not authenticated and authenticates exactly once;
\* one called before the stamp does not authenticate and runs directly.
C12_ExpiryDrivesReauthentication ==
    (last.op \in Wrapped /\ StampBefore.kind = "iso") =>
        /\ now > StampBefore.t =>
              last.authPre = "false" /\ last.authCalls = 1
        /\ now < StampBefore.t =>
              last.authPre = "true" /\ last.authCalls = 0 /\ last.bodyReached

\* C13: when a refresh_cookie-wrapped action returns normally, every
\* PHPSESSID cookie of the session has the completion time plus 600 s as
\* its expiry and the other cookies are as the requests left them; when the
\* action or the login before it raises, no cookie's expiry is stamped.
C13_RefreshStampsOnlyAuthCookie ==
    last.op \in Wrapped =>
        /\ last.result = "ok" =>
              \A n \in CookieNames :
                 IF n = AUTHCOOKIE_NAME /\ jar[n].kind # "absent"
                 THEN /\ jar[n].kind = "iso"
                      /\ jar[n].t = now + INTERNAL_COOKIE_EXPIRY
                      /\ jar[n].creds = last.jarBody[n].creds
                 ELSE jar[n] = last.jarBody[n]
        /\ last.result # "ok" =>
              \A n \in CookieNames :
                 jar[n].kind = "iso" => jar[n] = last.jarBefore[n]

\* C13 witness: a page fetch returned on a session holding the PHPSESSID
\* cookie and another cookie
C13_Witness ==
    /\ last.op = "get_page"
    /\ last.result = "ok"
    /\ last.refreshed
    /\ jar[AUTHCOOKIE_NAME].kind = "iso"
    /\ jar[OtherCookie].kind = "none"

\* C14: one call of a wrapped action issues at most one login POST and at
\* most one action request; when the login raises (transport error or
\* InvalidCredentialsError) the call raises that error with no request
\* after the login POST, and when the action request raises the call raises
\* with that request as its last; nothing is refreshed then.
C14_NoRetryNoRecovery ==
    last.op \in Wrapped =>
        /\ Cardinality(LoginPosts) <= 1
        /\ Cardinality(ActionRequests) <= 1
        /\ last.result = "InvalidCredentialsError" =>
              /\ ~last.bodyReached
              /\ Len(last.reqs) = 1 /\ last.reqs[1].kind = "login"
              /\ ~last.refreshed
        /\ last.result = "RequestException" =>
              /\ ~last.refreshed
              /\ Len(last.reqs) >= 1
              /\ IF last.bodyReached
                 THEN last.reqs[Len(last.reqs)].kind # "login"
                 ELSE Len(last.reqs) = 1 /\ last.reqs[1].kind = "login"

\* C14 witness: a page fetch logged in, and then its GET failed in transport
C14_Witness ==
    /\ last.op = "get_page"
    /\ last.authCalls = 1
    /\ last.bodyReached
    /\ last.result = "RequestException"
    /\ Len(last.reqs) = 2

\* C15: every request the device issues (login POST, reboot POST, page
\* GET) is made with the timeout TIMEOUT_LIMIT.
C15_EveryRequestHasTimeout ==
    \A i \in DOMAIN last.reqs : last.reqs[i].timeout = <<TIMEOUT_LIMIT>>

\* C16: the login POST goes to "https://" + ip_address + "/check.php", the
\* reboot POST to "https://" + ip_address +
\* "/actionHandler/ajaxSet_mta_Line_Diagnostics.php", and the GET of
\* get_page(page) to "https://" + ip_address + "/" + page.
C16_RequestUrls ==
    /\ \A i \in DOMAIN last.reqs :
          /\ last.reqs[i].kind = "login" =>
                last.reqs[i].url = Https \o ip_address \o CheckPath
          /\ last.reqs[i].kind = "reboot" =>
                last.reqs[i].url = Https \o ip_address \o RebootPath
          /\ last.reqs[i].kind = "page" =>
                last.reqs[i].url = Https \o ip_address \o Slash \o last.arg
    /\ (last.op = "reboot" /\ last.bodyReached) =>
          reboot_url(ip_address) = Https \o ip_address \o RebootPath

\* C17: every request the device issues verifies the certificate exactly
\* when ignore_cert is false; ignore_cert is what the configuration says,
\* false when it says nothing; and no call on the device changes it.
C17_VerifyHonoursFlag ==
    /\ [](\A i \in DOMAIN last.reqs : last.reqs[i].verify = ~ignore_cert)
    /\ []((last.op = "get" /\ last.result = "ok") =>
             /\ last.arg[2].ignore_cert = None => ~ignore_cert
             /\ ignore_cert = (last.arg[2].ignore_cert = "True"))
    /\ [][modem # "none" => ignore_cert' = ignore_cert]_vars

\* C17 witness: a device configured to ignore certificates sent a login
\* POST and a page GET, both unverified
C17_Witness ==
    /\ last.op = "get_page"
    /\ ignore_cert
    /\ Len(last.reqs) = 2
    /\ ~last.reqs[1].verify
    /\ ~last.reqs[2].verify

\* C18: login with the stored username and password keeps the session
\* object, its cookies and the stored credentials, and makes exactly one
\* authenticate() call, on that session; only what the login response sets
\* changes in the jar.
C18_LoginSameCredentialsKeepsSession ==
    ( /\ last.op = "login"
      /\ last.credsBefore = [username |-> last.arg[1], password |-> last.arg[2]] )
    => /\ session = last.sessionBefore
       /\ session \in live
       /\ credentials = last.credsBefore
       /\ last.authCalls = 1
       /\ Len(last.reqs) = 1
       /\ last.reqs[1].kind = "login"
       /\ last.reqs[1].sid = last.sessionBefore
       /\ last.reqs[1].data = last.credsBefore
       /\ last.reqs[1].cookies = CookiesIn(last.jarBefore)
       /\ \A n \in CookieNames :
             jar[n] # last.jarBefore[n] =>
                /\ last.result # "RequestException"
                /\ jar[n].kind \in {"none", "num"}
                /\ jar[n].creds = credentials

\* C18 witness: a device holding a PHPSESSID cookie was logged in again
\* with the stored pair
C18_Witness ==
    /\ last.op = "login"
    /\ last.credsBefore = [username |-> last.arg[1], password |-> last.arg[2]]
    /\ last.jarBefore[AUTHCOOKIE_NAME].kind # "absent"
    /\ last.authCalls = 1
    /\ session = last.sessionBefore

====
